---- MODULE Spec2Model ----
(***************************************************************************)
(* A model of the debug2 pretty printer: the indentation writer            *)
(* (PadAdapter), the five structural builders, the Formatter and the       *)
(* two-pass orchestrator pprint_checked / pprint.                          *)
(*                                                                         *)
(* Text is a sequence of one-character strings.  A Formatter is modelled   *)
(* together with the String it finally writes to: the record               *)
(*    [buf, mode, o, ok, p]                                                *)
(* holds the chain of PadAdapter line-start flags between the Formatter    *)
(* and the String (buf, outermost adapter first), the layout mode, the     *)
(* String's contents (o), the fmt::Result of the last call (ok) and        *)
(* whether an assertion has panicked (p); a panic also clears ok, so that   *)
(* nothing runs after it.                                                  *)
(***************************************************************************)
EXTENDS Integers, Sequences, FiniteSets, TLC

\* ------------------------------------------------------------------ bounds
\* longest script of entry-adding calls made by the root value's fmt
MaxOps == 3

\* how often pprint is called on one RefCell
MaxPrints == 3

\* the PadAdapter on its own: the number of write_str calls, and the length
\* of the text of one call
MaxPieces == 3

MaxText == 2

\* entries(): the number of items an iterable yields, and the number of
\* entry/entries calls of a script that uses entries()
MaxIter == 2

MaxCalls == 2

\* the PadAdapter over a destination that fails: the number of bytes the
\* destination accepts
MaxRoom == 6

\* two pprint calls at once: the number of context switches between them
MaxSwitches == 4

\* ------------------------------------------------------------------ text
MAX_LEN == 80

Rep(c, n) == [i \in 1..n |-> c]

NL == "\n"

\* the indent token PadAdapter writes at the start of a line
Indent == <<" ", " ", " ", " ">>

\* s.find('\n'): index of the first newline of s, 0 when there is none
FindNL(s) ==
    LET at == {j \in 1..Len(s) : s[j] = NL}
    IN  IF at = {} THEN 0 ELSE CHOOSE j \in at : \A k \in at : j <= k

\* UTF-8 width of one character
Utf8Width(c) == IF c = "é" THEN 2 ELSE 1

\* String::len: the length in bytes
StrLen(s) == Len(s) + Cardinality({j \in 1..Len(s) : Utf8Width(s[j]) = 2})

\* ------------------------------------------------------------------ sinks
\* <String as fmt::Write>::write_str: appends, never fails
String_write_str(w, s) == [w EXCEPT !.o = @ \o s, !.ok = TRUE]

\* The destination at the bottom of the chain, a `dyn fmt::Write`: the String
\* of pprint_mode (bounded = FALSE), or a writer that accepts `room` more
\* bytes and fails, writing nothing, on a write_str that exceeds them.  wr
\* counts the write_str calls the destination received.
Sink_write_str(w, s) ==
    IF w.bounded /\ Len(s) > w.room
    THEN [w EXCEPT !.ok = FALSE, !.wr = @ + 1]
    ELSE String_write_str(
             [w EXCEPT !.room = IF w.bounded THEN @ - Len(s) ELSE @, !.wr = @ + 1], s)

RECURSIVE BufWrite(_, _, _)
RECURSIVE PadAdapter_write_str(_, _, _)

\* write_str on the d-th writer of the chain; writer 0 is the String
BufWrite(w, d, s) ==
    IF d = 0 THEN Sink_write_str(w, s)
    ELSE PadAdapter_write_str(w, d, s)

\* where write_str cuts s, given the index pos of its first newline
Split(s, pos) == IF pos # 0 THEN pos ELSE Len(s)

\* faulty variant: the result of writing the chunk is ignored
PadAdapter_loop_ignore(w3, d, rest) == PadAdapter_write_str(w3, d, rest)

\* the end of one loop iteration: `self.buf.write_str(&s[..split])?` has
\* left w3, and the loop goes on with the rest
PadAdapter_loop(w3, d, rest) ==
    IF ~w3.ok THEN w3 ELSE PadAdapter_write_str(w3, d, rest)

\* faulty variant: `self.state.on_newline = true` is forgotten after a newline
PadAdapter_chunk_stuck(w1, d, s, pos) ==
    IF ~w1.ok THEN w1
    ELSE PadAdapter_loop(
             BufWrite([w1 EXCEPT !.buf[d] = FALSE], d - 1,
                      SubSeq(s, 1, Split(s, pos))),
             d, SubSeq(s, Split(s, pos) + 1, Len(s)))

\* faulty variant: the indent of the next line is written right after a
\* newline, and not before the next chunk
PadAdapter_chunk_eager(w1, d, s, pos) ==
    IF ~w1.ok THEN w1
    ELSE PadAdapter_loop(
             IF pos # 0
             THEN BufWrite(BufWrite([w1 EXCEPT !.buf[d] = FALSE], d - 1,
                                    SubSeq(s, 1, pos)),
                           d - 1, Indent)
             ELSE BufWrite([w1 EXCEPT !.buf[d] = FALSE], d - 1, s),
             d, SubSeq(s, Split(s, pos) + 1, Len(s)))

\* one loop iteration after the indent was written, leaving w1: on_newline
\* is set from the match on s.find('\n'), then the chunk is written
PadAdapter_chunk(w1, d, s, pos) ==
    IF ~w1.ok THEN w1
    ELSE PadAdapter_loop(
             BufWrite([w1 EXCEPT !.buf[d] = (pos # 0)], d - 1,
                      SubSeq(s, 1, Split(s, pos))),
             d, SubSeq(s, Split(s, pos) + 1, Len(s)))

PadAdapter_write_str(w, d, s) ==
    IF s = <<>> THEN [w EXCEPT !.ok = TRUE]
    ELSE PadAdapter_chunk(
             IF w.buf[d] THEN BufWrite(w, d - 1, Indent) ELSE w,
             d, s, FindNL(s))

\* Formatter::write_str
Formatter_write_str(w, s) == BufWrite(w, Len(w.buf), s)

\* faulty variant: the new Formatter is given the other mode
wrap_buf_other_mode(w, state) ==
    [w EXCEPT !.buf = Append(@, state),
              !.mode = IF @ = "Flat" THEN "Pretty" ELSE "Flat",
              !.fmts = @ \cup {[d |-> Len(w.buf) + 1,
                                mode |-> IF w.mode = "Flat" THEN "Pretty" ELSE "Flat"]}]

\* Formatter::wrap_buf as used by PadAdapter::wrap: the new Formatter writes
\* to a PadAdapter over the old buf and keeps the mode
wrap_buf(w, state) ==
    [w EXCEPT !.buf = Append(@, state),
              !.fmts = @ \cup {[d |-> Len(w.buf) + 1, mode |-> w.mode]}]

PadAdapter_wrap(w, state) == wrap_buf(w, state)

\* the wrapped Formatter goes out of scope: the parent Formatter is usable
\* again, with whatever the writes did to the adapters below it
Unwrap(w) == [w EXCEPT !.buf = SubSeq(@, 1, Len(@) - 1)]

\* faulty variant: a new adapter takes itself to be in the middle of a line
PadAdapterState_midline == FALSE

\* PadAdapterState::default
PadAdapterState_default == TRUE

\* pprint_mode's Formatter over a fresh String
\* fmts records every Formatter constructed in the pass, by the depth of its
\* buf in the chain and its mode
NewFormatter(mode) ==
    [buf |-> <<>>, mode |-> mode, o |-> <<>>, ok |-> TRUE, p |-> FALSE,
     bounded |-> FALSE, room |-> 0, wr |-> 0,
     fmts |-> {[d |-> 0, mode |-> mode]}]

\* a Formatter over a destination that accepts `room` bytes
BoundedFormatter(mode, room) ==
    [NewFormatter(mode) EXCEPT !.bounded = TRUE, !.room = room]

Formatter_is_pretty(w) == w.mode = "Pretty"

\* ------------------------------------------------------------------ values
\* A renderable value is what its fmt does: write its std Debug text (leaf),
\* return Err (err), or drive one builder through a script of calls.
Leaf(text) ==
    [k |-> "leaf", name |-> <<>>, text |-> text, items |-> <<>>, fin |-> "none"]

ErrorFmt ==
    [k |-> "err", name |-> <<>>, text |-> <<>>, items |-> <<>>, fin |-> "none"]

Built(kind, name, items, fin) ==
    [k |-> kind, name |-> name, text |-> <<>>, items |-> items, fin |-> fin]

Nil == Leaf(<<>>)

\* a value whose fmt writes its text the first time it is called and returns
\* Err every later time (it counts its calls in a Cell)
Flaky(text) ==
    [k |-> "flaky", name |-> <<>>, text |-> text, items |-> <<>>, fin |-> "none"]

OpField(n, v)  == [op |-> "field", n |-> n,    key |-> Nil, v |-> v]
OpEntry(v)     == [op |-> "entry", n |-> <<>>, key |-> Nil, v |-> v]
OpKey(k)       == [op |-> "key",   n |-> <<>>, key |-> k,   v |-> Nil]
OpValue(v)     == [op |-> "value", n |-> <<>>, key |-> Nil, v |-> v]
OpKV(k, v)     == [op |-> "kv",    n |-> <<>>, key |-> k,   v |-> v]

\* An IntoIterator is the sequence of items it yields: entry arguments for a
\* list or a set, (key, value) pairs for a map.
Iter(its) ==
    [k |-> "iter", name |-> <<>>, text |-> <<>>, items |-> its, fin |-> "none"]

OpEntries(it)  == [op |-> "entries", n |-> <<>>, key |-> Nil, v |-> it]

\* ------------------------------------------------------------------ builders
\* One record shape for the five builders: DebugStruct {result, has_fields},
\* DebugTuple {result, fields}, DebugInner {result, has_fields} (list, set),
\* DebugMap {result, has_fields, has_key, state}.  result is TRUE for Ok(()).
\* A builder in use is the pair [b, w] of its fields and its Formatter.
NewBuilder(kind, w) ==
    [b |-> [kind |-> kind, result |-> w.ok, has_fields |-> FALSE, fields |-> 0,
            has_key |-> FALSE, state |-> PadAdapterState_default],
     w |-> [w EXCEPT !.ok = TRUE]]

debug_struct_new(w, name) == NewBuilder("struct", Formatter_write_str(w, name))

debug_tuple_new(w, name) == NewBuilder("tuple", Formatter_write_str(w, name))

debug_set_new(w) == NewBuilder("set", Formatter_write_str(w, <<"{">>))

debug_list_new(w) == NewBuilder("list", Formatter_write_str(w, <<"[">>))

\* faulty variant: the map builder is created without writing the brace
debug_map_new_silent(w) == NewBuilder("map", w)

debug_map_new(w) == NewBuilder("map", Formatter_write_str(w, <<"{">>))

RECURSIVE Fmt(_, _)

\* `?` followed by a write_str: nothing is written after a failure
TryWrite(w, s) == IF w.ok THEN Formatter_write_str(w, s) ELSE w

\* `?` followed by `value.fmt(&mut writer)`
TryFmt(v, w) == IF w.ok THEN Fmt(v, w) ELSE w

\* The closure of `self.result = self.result.and_then(..)` ended with
\* Formatter w1, wrapped in `wrapped` PadAdapters: its value is the new
\* result, and the builder's own Formatter is usable again.  (A closure that
\* fails before it wraps is modelled as wrapping and writing nothing.)
Closed(S, w1, wrapped) ==
    [b |-> [S.b EXCEPT !.result = w1.ok],
     w |-> [w1 EXCEPT !.buf = SubSeq(@, 1, Len(@) - wrapped), !.ok = ~w1.p]]

\* faulty variant: the `,` and the newline after the value are not written
DebugStruct_field_open_ended(S, name, value) ==
    [(IF ~S.b.result THEN S
      ELSE Closed(S,
               TryFmt(value,
                   TryWrite(
                       TryWrite(
                           PadAdapter_wrap(
                               IF ~S.b.has_fields
                               THEN Formatter_write_str(S.w, <<" ", "{", NL>>)
                               ELSE S.w,
                               PadAdapterState_default),
                           name),
                       <<":", " ">>)),
               1))
     EXCEPT !.b.has_fields = TRUE]

DebugStruct_field(S, name, value) ==
    [(IF ~S.b.result THEN S
      ELSE Closed(S,
               TryWrite(
                   TryFmt(value,
                       TryWrite(
                           TryWrite(
                               PadAdapter_wrap(
                                   IF ~S.b.has_fields
                                   THEN Formatter_write_str(S.w, <<" ", "{", NL>>)
                                   ELSE S.w,
                                   PadAdapterState_default),
                               name),
                           <<":", " ">>)),
                   <<",", NL>>),
               1))
     EXCEPT !.b.has_fields = TRUE]

\* faulty variant: the `..` line is written to the Formatter itself
DebugStruct_finish_non_exhaustive_unpadded(S) ==
    IF ~S.b.result THEN S
    ELSE IF S.b.has_fields
         THEN Closed(S,
                  TryWrite(Formatter_write_str(S.w, <<".", ".", NL>>), <<"}">>),
                  0)
         ELSE Closed(S, Formatter_write_str(S.w, <<" ", "{", " ", ".", ".", " ", "}">>), 0)

DebugStruct_finish_non_exhaustive(S) ==
    IF ~S.b.result THEN S
    ELSE IF S.b.has_fields
         THEN Closed(S,
                  TryWrite(
                      Unwrap(Formatter_write_str(
                          PadAdapter_wrap(S.w, PadAdapterState_default),
                          <<".", ".", NL>>)),
                      <<"}">>),
                  0)
         ELSE Closed(S, Formatter_write_str(S.w, <<" ", "{", " ", ".", ".", " ", "}">>), 0)

\* faulty variant: finish closes the brace without looking at has_fields
DebugStruct_finish_always(S) ==
    IF S.b.result THEN Closed(S, Formatter_write_str(S.w, <<"}">>), 0) ELSE S

DebugStruct_finish(S) ==
    IF S.b.has_fields /\ S.b.result
    THEN Closed(S, Formatter_write_str(S.w, <<"}">>), 0)
    ELSE S

\* faulty variant: every field call writes the parenthesis and the newline
DebugTuple_field_reopen(S, value) ==
    [(IF ~S.b.result THEN S
      ELSE Closed(S,
               TryWrite(
                   TryFmt(value,
                       PadAdapter_wrap(
                           Formatter_write_str(S.w, <<"(", NL>>),
                           PadAdapterState_default)),
                   <<",", NL>>),
               1))
     EXCEPT !.b.fields = @ + 1]

DebugTuple_field(S, value) ==
    [(IF ~S.b.result THEN S
      ELSE Closed(S,
               TryWrite(
                   TryFmt(value,
                       PadAdapter_wrap(
                           IF S.b.fields = 0
                           THEN Formatter_write_str(S.w, <<"(", NL>>)
                           ELSE S.w,
                           PadAdapterState_default)),
                   <<",", NL>>),
               1))
     EXCEPT !.b.fields = @ + 1]

\* faulty variant: the closing delimiter depends on Formatter::is_pretty
DebugTuple_finish_by_mode(S) ==
    IF S.b.fields > 0 /\ S.b.result
    THEN Closed(S, Formatter_write_str(S.w, IF S.w.mode = "Pretty"
                                            THEN <<")">> ELSE <<" ", ")">>), 0)
    ELSE S

DebugTuple_finish(S) ==
    IF S.b.fields > 0 /\ S.b.result
    THEN Closed(S, Formatter_write_str(S.w, <<")">>), 0)
    ELSE S

\* faulty variant: `self.result = (closure)()`: an earlier failure is overwritten
DebugInner_entry_overwrite(S, entry) ==
    [Closed(S,
         TryWrite(
             TryFmt(entry,
                 PadAdapter_wrap(
                     IF ~S.b.has_fields
                     THEN Formatter_write_str(S.w, <<NL>>)
                     ELSE S.w,
                     PadAdapterState_default)),
             <<",", NL>>),
         1)
     EXCEPT !.b.has_fields = TRUE]

DebugInner_entry(S, entry) ==
    [(IF ~S.b.result THEN S
      ELSE Closed(S,
               TryWrite(
                   TryFmt(entry,
                       PadAdapter_wrap(
                           IF ~S.b.has_fields
                           THEN Formatter_write_str(S.w, <<NL>>)
                           ELSE S.w,
                           PadAdapterState_default)),
                   <<",", NL>>),
               1))
     EXCEPT !.b.has_fields = TRUE]

DebugSet_entry(S, entry) == DebugInner_entry(S, entry)

DebugList_entry(S, entry) == DebugInner_entry(S, entry)

\* faulty variant: the brace is closed only when an entry was added
DebugSet_finish_if_fields(S) ==
    IF S.b.result /\ S.b.has_fields
    THEN Closed(S, Formatter_write_str(S.w, <<"}">>), 0)
    ELSE S

\* finish of a set or a list returns result.and_then(write) and stores
\* nothing; the returned value is kept in b.result, which nothing reads later
DebugSet_finish(S) ==
    IF S.b.result THEN Closed(S, Formatter_write_str(S.w, <<"}">>), 0) ELSE S

\* faulty variant: finish writes the bracket whatever the result is
DebugList_finish_unchecked(S) == Closed(S, Formatter_write_str(S.w, <<"]">>), 0)

DebugList_finish(S) ==
    IF S.b.result THEN Closed(S, Formatter_write_str(S.w, <<"]">>), 0) ELSE S

\* a failed assert!: the call does not return
Panic(S) == [S EXCEPT !.w.ok = FALSE, !.w.p = TRUE, !.b.result = FALSE]

\* faulty variant: has_key is assigned whether or not the closure failed
ClosedMap_eager(S, w2, has_key) ==
    [b |-> [S.b EXCEPT !.result = w2.ok,
                       !.state = w2.buf[Len(w2.buf)],
                       !.has_key = has_key],
     w |-> [[w2 EXCEPT !.buf = SubSeq(@, 1, Len(@) - 1)] EXCEPT !.ok = ~w2.p]]

\* The closure of DebugMap::key or DebugMap::value ended with Formatter w2,
\* wrapped in the PadAdapter over self.state; has_key is assigned only when
\* the closure ran to its end.
ClosedMap(S, w2, has_key) ==
    [b |-> [S.b EXCEPT !.result = w2.ok,
                       !.state = w2.buf[Len(w2.buf)],
                       !.has_key = IF w2.ok THEN has_key ELSE @],
     w |-> [Unwrap(w2) EXCEPT !.ok = ~w2.p]]

\* key's PadAdapter: self.state is reset to the default after the leading
\* newline was written
KeyWrap(S, w0) ==
    PadAdapter_wrap(w0, IF w0.ok THEN PadAdapterState_default ELSE S.b.state)

\* faulty variant: the assertion is made before the result is looked at
DebugMap_key_assert_first(S, key) ==
    IF S.b.has_key THEN Panic(S)
    ELSE IF ~S.b.result THEN S
    ELSE ClosedMap(S,
             TryWrite(
                 TryFmt(key,
                     KeyWrap(S,
                         IF ~S.b.has_fields
                         THEN Formatter_write_str(S.w, <<NL>>)
                         ELSE S.w)),
                 <<":", " ">>),
             TRUE)

DebugMap_key(S, key) ==
    IF ~S.b.result THEN S
    ELSE IF S.b.has_key THEN Panic(S)
    ELSE ClosedMap(S,
             TryWrite(
                 TryFmt(key,
                     KeyWrap(S,
                         IF ~S.b.has_fields
                         THEN Formatter_write_str(S.w, <<NL>>)
                         ELSE S.w)),
                 <<":", " ">>),
             TRUE)

\* `self.has_fields = true` after the closure; not reached when it panicked
AfterValue(S) == IF S.w.p THEN S ELSE [S EXCEPT !.b.has_fields = TRUE]

\* faulty variant: value wraps the Formatter with a state of its own
DebugMap_value_own_state(S, value) ==
    AfterValue(
        IF ~S.b.result THEN S
        ELSE IF ~S.b.has_key THEN Panic(S)
        ELSE ClosedMap(S,
                 TryWrite(
                     TryFmt(value, PadAdapter_wrap(S.w, PadAdapterState_default)),
                     <<",", NL>>),
                 FALSE))

DebugMap_value(S, value) ==
    AfterValue(
        IF ~S.b.result THEN S
        ELSE IF ~S.b.has_key THEN Panic(S)
        ELSE ClosedMap(S,
                 TryWrite(
                     TryFmt(value, PadAdapter_wrap(S.w, S.b.state)),
                     <<",", NL>>),
                 FALSE))

\* `.value(value)` on what `self.key(key)` returned
ValueAfterKey(K, value) == IF K.w.p THEN K ELSE DebugMap_value(K, value)

\* faulty variant: value is given a PadAdapter with a state of its own
DebugMap_entry_fresh_state(S, key, value) ==
    ValueAfterKey([DebugMap_key(S, key) EXCEPT !.b.state = PadAdapterState_default],
                  value)

DebugMap_entry(S, key, value) == ValueAfterKey(DebugMap_key(S, key), value)

\* faulty variant: finish does not assert that no key is pending
DebugMap_finish_noassert(S) ==
    IF ~S.b.result THEN S
    ELSE Closed(S, Formatter_write_str(S.w, <<"}">>), 0)

DebugMap_finish(S) ==
    IF ~S.b.result THEN S
    ELSE IF S.b.has_key THEN Panic(S)
    ELSE Closed(S, Formatter_write_str(S.w, <<"}">>), 0)

\* ---- entries(): `for entry in entries { self.entry(&entry); }`
RECURSIVE DebugSet_entries_from(_, _, _)
DebugSet_entries_from(S, its, j) ==
    IF j > Len(its) THEN S
    ELSE DebugSet_entries_from(DebugSet_entry(S, its[j].v), its, j + 1)

DebugSet_entries(S, entries) == DebugSet_entries_from(S, entries.items, 1)

RECURSIVE DebugList_entries_from(_, _, _)
DebugList_entries_from(S, its, j) ==
    IF j > Len(its) THEN S
    ELSE DebugList_entries_from(DebugList_entry(S, its[j].v), its, j + 1)

Reverse(its) == [j \in 1..Len(its) |-> its[Len(its) + 1 - j]]

\* faulty variant: the items are taken from the back of the iterator
DebugList_entries_rev(S, entries) ==
    DebugList_entries_from(S, Reverse(entries.items), 1)

DebugList_entries(S, entries) == DebugList_entries_from(S, entries.items, 1)

\* the loop ends with the first entry call that panics
RECURSIVE DebugMap_entries_from(_, _, _)
DebugMap_entries_from(S, its, j) ==
    IF j > Len(its) \/ S.w.p THEN S
    ELSE DebugMap_entries_from(DebugMap_entry(S, its[j].key, its[j].v), its, j + 1)

DebugMap_entries(S, entries) == DebugMap_entries_from(S, entries.items, 1)

\* ------------------------------------------------------------------ fmt
\* the builder the value's fmt creates
Create(v, w) ==
    CASE v.k = "struct" -> debug_struct_new(w, v.name)
      [] v.k = "tuple"  -> debug_tuple_new(w, v.name)
      [] v.k = "list"   -> debug_list_new(w)
      [] v.k = "set"    -> debug_set_new(w)
      [] v.k = "map"    -> debug_map_new(w)

\* one entry-adding call of the value's fmt
Call(S, it) ==
    CASE it.op = "field" /\ S.b.kind = "struct" -> DebugStruct_field(S, it.n, it.v)
      [] it.op = "field" /\ S.b.kind = "tuple"  -> DebugTuple_field(S, it.v)
      [] it.op = "entry" /\ S.b.kind = "list"   -> DebugList_entry(S, it.v)
      [] it.op = "entry" /\ S.b.kind = "set"    -> DebugSet_entry(S, it.v)
      [] it.op = "key"                          -> DebugMap_key(S, it.key)
      [] it.op = "value"                        -> DebugMap_value(S, it.v)
      [] it.op = "kv"                           -> DebugMap_entry(S, it.key, it.v)
      [] it.op = "entries" /\ S.b.kind = "list" -> DebugList_entries(S, it.v)
      [] it.op = "entries" /\ S.b.kind = "set"  -> DebugSet_entries(S, it.v)
      [] it.op = "entries" /\ S.b.kind = "map"  -> DebugMap_entries(S, it.v)

\* the terminal call of the value's fmt
Finish(S, fin) ==
    CASE fin = "nonexh"       -> DebugStruct_finish_non_exhaustive(S)
      [] S.b.kind = "struct"  -> DebugStruct_finish(S)
      [] S.b.kind = "tuple"   -> DebugTuple_finish(S)
      [] S.b.kind = "list"    -> DebugList_finish(S)
      [] S.b.kind = "set"     -> DebugSet_finish(S)
      [] S.b.kind = "map"     -> DebugMap_finish(S)

RECURSIVE Calls(_, _, _)
Calls(S, items, i) ==
    IF i > Len(items) \/ S.w.p THEN S
    ELSE Calls(Call(S, items[i]), items, i + 1)

\* Formatter::write_debug: the std Debug text goes to the buf
Formatter_write_debug(w, text) == BufWrite(w, Len(w.buf), text)

\* fmt returns what the terminal call returned
FmtReturn(S) == [S.w EXCEPT !.ok = S.b.result /\ ~S.w.p]

\* <v as Debug>::fmt(&v, f); the fmt::Result it returns is .ok
Fmt(v, w) ==
    CASE v.k = "leaf" -> Formatter_write_debug(w, v.text)
      [] v.k = "err"  -> [w EXCEPT !.ok = FALSE]
      [] OTHER -> FmtReturn(Finish(Calls(Create(v, w), v.items, 1), v.fin))

One == Leaf(<<"1">>)
LongLeaf(n) == Leaf(Rep("x", n))
Some1 == Built("tuple", <<"S", "o", "m", "e">>, <<OpField(<<>>, One)>>, "finish")
NoneV == Built("tuple", <<"N", "o", "n", "e">>, <<>>, "finish")
Deep == Built("list", <<>>, <<OpEntry(Some1), OpEntry(NoneV)>>, "finish")
\* a struct whose first field fails to render and whose second would not
Broken ==
    Built("struct", <<"B">>, <<OpField(<<"e">>, ErrorFmt), OpField(<<"f">>, One)>>,
          "finish")

\* ------------------------------------------------------------------ inputs
Foo == <<"F", "o", "o">>

\* the values a field, entry, key or value of the root can be
Nested == {One, LongLeaf(71), ErrorFmt, Some1, Deep, Broken}

\* the keys and values the root map builder is driven with
MapNested == {One, ErrorFmt, Some1}

SeqsUpTo(S, n) == UNION {[1..m -> S] : m \in 0..n}

StructOps == {OpField(<<"a">>, v) : v \in Nested}
TupleOps  == {OpField(<<>>, v) : v \in Nested}
InnerOps  == {OpEntry(v) : v \in Nested}
MapOps    == {OpKey(k) : k \in MapNested} \cup {OpValue(v) : v \in MapNested}
                \cup {OpKV(k, v) : k \in MapNested, v \in MapNested}

\* the root values: scalars around the width threshold (one of them with a
\* two-byte character), a failing renderer, zero-field builders with a long
\* name, and every script of at most MaxOps calls on each builder
Roots ==
    {One, ErrorFmt, LongLeaf(79), LongLeaf(80), LongLeaf(81),
     Leaf(Rep("x", 79) \o <<"é">>),
     Built("struct", Rep("N", 81), <<>>, "finish"),
     Built("tuple", Rep("N", 81), <<>>, "finish")}
    \cup {Built("struct", Foo, ops, fin) :
              ops \in SeqsUpTo(StructOps, MaxOps), fin \in {"finish", "nonexh"}}
    \cup {Built("tuple", Foo, ops, "finish") : ops \in SeqsUpTo(TupleOps, MaxOps)}
    \cup {Built(kind, <<>>, ops, "finish") :
              kind \in {"list", "set"}, ops \in SeqsUpTo(InnerOps, MaxOps)}
    \cup {Built("map", <<>>, ops, "finish") : ops \in SeqsUpTo(MapOps, MaxOps)}

\* ---- RefCell<T>: the held value and whether a RefMut to it is alive
NoCell == [some |-> FALSE, value |-> Nil, borrowed |-> FALSE]

RefCell_new(v) == [some |-> TRUE, value |-> v, borrowed |-> FALSE]

RefCellName == <<"R", "e", "f", "C", "e", "l", "l">>

ValueName == <<"v", "a", "l", "u", "e">>

\* BorrowedPlaceholder::fmt is f.write_str("<borrowed>")
BorrowedPlaceholder == Leaf(<<"<", "b", "o", "r", "r", "o", "w", "e", "d", ">">>)

\* RefCell::try_borrow fails exactly while the cell is mutably borrowed
try_borrow_ok(c) == ~c.borrowed

\* <RefCell<T> as Debug>::fmt: the builder calls of the arm try_borrow selects
RefCell_fmt(c) ==
    Built("struct", RefCellName,
          <<OpField(ValueName, IF try_borrow_ok(c) THEN c.value ELSE BorrowedPlaceholder)>>,
          "finish")

Five == Leaf(<<"5">>)

\* the cells pprint is called on: RefCell::new(5), and one whose rendering
\* is longer than MAX_LEN
Cells == {RefCell_new(Five), RefCell_new(LongLeaf(71))}

\* the texts of one write_str call on a PadAdapter
Texts == SeqsUpTo({"a", NL}, MaxText)

\* ------------------------------------------------------------------ state
VARIABLES
    x,        \* the value pprint was called on
    pc,       \* where the call is: "idle", "fmt" (x.fmt entered), "build"
              \* (x.fmt drives its builder), "fmtret" (x.fmt returned),
              \* "done" (pprint_checked returned), "end" (pprint returned or
              \* unwrapped an Err), "panicked" (an assertion aborted the call)
    f,        \* the Formatter of the running pass and its String
    bld,      \* the root builder's fields
    i,        \* the next call of x's script
    flat,     \* what flatprint_checked returned
    pretty,   \* what pprint_mode(x, Pretty) returned
    ret,      \* what pprint_checked returned
    pp,       \* what pprint returned
    calls,    \* how often x.fmt was entered
    cell,     \* the RefCell x is, NoCell when x is no RefCell
    shown,    \* what the pprint calls made so far returned
    pieces,   \* the texts still to be written to the PadAdapter on its own
    written,  \* the concatenation of the texts written to it so far
    other,    \* the locals of a second pprint call, suspended on another
              \* thread; NoCall when there is none
    switches  \* how often the running thread changed

vars == <<x, pc, f, bld, i, flat, pretty, ret, pp, calls, cell, shown, pieces, written, other, switches>>

\* Result<String, Error> values; NotYet marks a call that has not returned
NotYet   == [tag |-> "none", s |-> <<>>]
Ok(s)    == [tag |-> "ok", s |-> s]
Err      == [tag |-> "err", s |-> <<>>]
Aborted  == [tag |-> "panic", s |-> <<>>]

NoBuilder == NewBuilder("none", NewFormatter("Flat")).b

\* the locals of one pprint call: its argument, its position, its Formatter
\* and String, its builder, and what the calls it made returned
Locals(lx, lpc, lf, lbld, li, lflat, lpretty, lret, lpp, lcalls) ==
    [x |-> lx, pc |-> lpc, f |-> lf, bld |-> lbld, i |-> li, flat |-> lflat,
     pretty |-> lpretty, ret |-> lret, pp |-> lpp, calls |-> lcalls]

NewCall(v) ==
    Locals(v, "idle", NewFormatter("Flat"), NoBuilder, 1, NotYet, NotYet, NotYet, NotYet, 0)

NoCall ==
    Locals(Nil, "none", NewFormatter("Flat"), NoBuilder, 1, NotYet, NotYet, NotYet, NotYet, 0)

Init ==
    /\ \/ cell = NoCell /\ x \in Roots
       \/ cell \in Cells /\ x = RefCell_fmt(cell)
    /\ shown = <<>>
    /\ pieces = <<>>
    /\ written = <<>>
    /\ other = NoCall
    /\ switches = 0
    /\ pc = "idle"
    /\ f = NewFormatter("Flat")
    /\ bld = NoBuilder
    /\ i = 1
    /\ flat = NotYet
    /\ pretty = NotYet
    /\ ret = NotYet
    /\ pp = NotYet
    /\ calls = 0

\* pprint -> pprint_checked -> flatprint_checked -> pprint_mode(x, Flat), up
\* to the call of x.fmt
pprint_call ==
    /\ pc = "idle"
    /\ f' = NewFormatter("Flat")
    /\ pc' = "fmt"
    /\ calls' = calls + 1
    /\ UNCHANGED <<x, bld, i, flat, pretty, ret, pp, cell, shown, pieces, written, other, switches>>

\* x.fmt of a scalar
fmt_write_debug ==
    /\ pc = "fmt" /\ x.k = "leaf"
    /\ f' = Formatter_write_debug(f, x.text)
    /\ pc' = "fmtret"
    /\ UNCHANGED <<x, bld, i, flat, pretty, ret, pp, calls, cell, shown, pieces, written, other, switches>>

\* x.fmt that returns Err(fmt::Error)
fmt_error ==
    /\ pc = "fmt" /\ x.k = "err"
    /\ f' = Fmt(x, f)
    /\ pc' = "fmtret"
    /\ UNCHANGED <<x, bld, i, flat, pretty, ret, pp, calls, cell, shown, pieces, written, other, switches>>

\* the state after a call on the root builder left it as S
Continue(S, nextpc) ==
    /\ bld' = S.b
    /\ f' = S.w
    /\ pc' = IF S.w.p THEN "panicked" ELSE nextpc
    /\ UNCHANGED <<x, flat, pretty, ret, pp, calls, cell, shown, pieces, written, other, switches>>

Root == [b |-> bld, w |-> f]

\* Formatter::debug_struct / debug_tuple / debug_list / debug_set / debug_map
debug_new(kind) ==
    /\ pc = "fmt" /\ x.k = kind
    /\ Continue(Create(x, f), "build")
    /\ i' = 1

\* the i-th call of the script is `op` on a builder of kind `kind`
AtCall(kind, op) ==
    /\ pc = "build" /\ bld.kind = kind
    /\ i <= Len(x.items) /\ x.items[i].op = op

struct_field ==
    /\ AtCall("struct", "field")
    /\ Continue(DebugStruct_field(Root, x.items[i].n, x.items[i].v), "build")
    /\ i' = i + 1

tuple_field ==
    /\ AtCall("tuple", "field")
    /\ Continue(DebugTuple_field(Root, x.items[i].v), "build")
    /\ i' = i + 1

list_entry ==
    /\ AtCall("list", "entry")
    /\ Continue(DebugList_entry(Root, x.items[i].v), "build")
    /\ i' = i + 1

set_entry ==
    /\ AtCall("set", "entry")
    /\ Continue(DebugSet_entry(Root, x.items[i].v), "build")
    /\ i' = i + 1

map_key ==
    /\ AtCall("map", "key")
    /\ Continue(DebugMap_key(Root, x.items[i].key), "build")
    /\ i' = i + 1

map_value ==
    /\ AtCall("map", "value")
    /\ Continue(DebugMap_value(Root, x.items[i].v), "build")
    /\ i' = i + 1

map_entry ==
    /\ AtCall("map", "kv")
    /\ Continue(DebugMap_entry(Root, x.items[i].key, x.items[i].v), "build")
    /\ i' = i + 1

\* the terminal call; its fmt::Result is what x.fmt returns
AtFinish(kind, fin) ==
    /\ pc = "build" /\ bld.kind = kind
    /\ i > Len(x.items) /\ x.fin = fin

Return(S) ==
    /\ Continue([S EXCEPT !.w = FmtReturn(S)], "fmtret")
    /\ UNCHANGED i

struct_finish == AtFinish("struct", "finish") /\ Return(DebugStruct_finish(Root))

struct_finish_non_exhaustive ==
    AtFinish("struct", "nonexh") /\ Return(DebugStruct_finish_non_exhaustive(Root))

tuple_finish == AtFinish("tuple", "finish") /\ Return(DebugTuple_finish(Root))

list_finish == AtFinish("list", "finish") /\ Return(DebugList_finish(Root))

set_finish == AtFinish("set", "finish") /\ Return(DebugSet_finish(Root))

map_finish == AtFinish("map", "finish") /\ Return(DebugMap_finish(Root))

\* faulty variant: the test written as `flat.len() < MAX_LEN`
FitsFlat_strict(s) == StrLen(s) < MAX_LEN

\* pprint_checked's test `flat.len() <= MAX_LEN`
FitsFlat(s) == StrLen(s) <= MAX_LEN

\* faulty variant: unwrap_or_default: an Err becomes the empty String
Result_unwrap_or_default(r) == IF r.tag = "ok" THEN r ELSE [tag |-> "ok", s |-> <<>>]

\* Result::unwrap: the Ok value, or a panic
Result_unwrap(r) == IF r.tag = "ok" THEN r ELSE Aborted

\* pprint_mode: `x.fmt(&mut f)?; Ok(out)`
pprint_mode_result == IF f.ok THEN Ok(f.o) ELSE Err

\* faulty variant: the Pretty pass goes on in the Formatter and String of the
\* Flat pass
flat_return_reuse ==
    /\ pc = "fmtret" /\ f.mode = "Flat"
    /\ flat' = (IF f.ok THEN Ok(f.o) ELSE Err)
    /\ IF flat'.tag = "err"
       THEN ret' = Err /\ pc' = "done" /\ UNCHANGED <<f, bld, i, calls>>
       ELSE IF StrLen(flat'.s) <= MAX_LEN
       THEN ret' = Ok(flat'.s) /\ pc' = "done" /\ UNCHANGED <<f, bld, i, calls>>
       ELSE /\ f' = [f EXCEPT !.mode = "Pretty", !.buf = <<>>]
            /\ bld' = NoBuilder
            /\ i' = 1
            /\ pc' = "fmt"
            /\ calls' = calls + 1
            /\ UNCHANGED ret
    /\ UNCHANGED <<x, pretty, pp, cell, shown, pieces, written, other, switches>>

\* flatprint_checked returns into pprint_checked, which returns the error,
\* returns the flat text, or enters pprint_mode(x, Pretty)
flat_return ==
    /\ pc = "fmtret" /\ f.mode = "Flat"
    /\ flat' = pprint_mode_result
    /\ IF flat'.tag = "err"
       THEN ret' = Err /\ pc' = "done" /\ UNCHANGED <<f, bld, i, calls>>
       ELSE IF FitsFlat(flat'.s)
       THEN ret' = Ok(flat'.s) /\ pc' = "done" /\ UNCHANGED <<f, bld, i, calls>>
       ELSE /\ f' = NewFormatter("Pretty")
            /\ bld' = NoBuilder
            /\ i' = 1
            /\ pc' = "fmt"
            /\ calls' = calls + 1
            /\ UNCHANGED ret
    /\ UNCHANGED <<x, pretty, pp, cell, shown, pieces, written, other, switches>>

\* faulty variant: a failed Pretty pass falls back to the flat text
pretty_return_fallback ==
    /\ pc = "fmtret" /\ f.mode = "Pretty"
    /\ pretty' = (IF f.ok THEN Ok(f.o) ELSE Err)
    /\ ret' = (IF f.ok THEN pretty' ELSE flat)
    /\ pc' = "done"
    /\ UNCHANGED <<x, f, bld, i, flat, pp, calls, cell, shown, pieces, written, other, switches>>

\* faulty variant: a Pretty rendering that is too long is rendered again
pretty_return_again ==
    /\ pc = "fmtret" /\ f.mode = "Pretty"
    /\ pretty' = (IF f.ok THEN Ok(f.o) ELSE Err)
    /\ IF f.ok /\ StrLen(f.o) > MAX_LEN
       THEN /\ f' = NewFormatter("Pretty")
            /\ bld' = NoBuilder
            /\ i' = 1
            /\ pc' = "fmt"
            /\ UNCHANGED ret
       ELSE ret' = pretty' /\ pc' = "done" /\ UNCHANGED <<f, bld, i>>
    /\ UNCHANGED <<x, flat, pp, calls, cell, shown, pieces, written, other, switches>>

\* pprint_mode(x, Pretty) returns, and pprint_checked returns its result
pretty_return ==
    /\ pc = "fmtret" /\ f.mode = "Pretty"
    /\ pretty' = pprint_mode_result
    /\ ret' = pretty'
    /\ pc' = "done"
    /\ UNCHANGED <<x, f, bld, i, flat, pp, calls, cell, shown, pieces, written, other, switches>>

\* pprint: pprint_checked(x).unwrap()
pprint_unwrap ==
    /\ pc = "done"
    /\ pp' = Result_unwrap(ret)
    /\ shown' = Append(shown, pp')
    /\ pc' = "end"
    /\ UNCHANGED <<x, f, bld, i, flat, pretty, ret, calls, cell, pieces, written, other, switches>>

\* `let borrow = refcell.borrow_mut();` between two pprint calls
RefCell_borrow_mut ==
    /\ pc = "idle" /\ cell.some /\ ~cell.borrowed
    /\ cell' = [cell EXCEPT !.borrowed = TRUE]
    /\ x' = RefCell_fmt(cell')
    /\ UNCHANGED <<pc, f, bld, i, flat, pretty, ret, pp, calls, shown, pieces, written, other, switches>>

\* `drop(borrow)`
RefMut_drop ==
    /\ pc = "idle" /\ cell.some /\ cell.borrowed
    /\ cell' = [cell EXCEPT !.borrowed = FALSE]
    /\ x' = RefCell_fmt(cell')
    /\ UNCHANGED <<pc, f, bld, i, flat, pretty, ret, pp, calls, shown, pieces, written, other, switches>>

\* pprint returned its String to a caller that will print the cell again
pprint_return ==
    /\ pc = "end" /\ cell.some /\ pp.tag = "ok" /\ Len(shown) < MaxPrints
    /\ pc' = "idle"
    /\ f' = NewFormatter("Flat")
    /\ bld' = NoBuilder
    /\ i' = 1
    /\ flat' = NotYet /\ pretty' = NotYet /\ ret' = NotYet /\ pp' = NotYet
    /\ calls' = 0
    /\ UNCHANGED <<x, cell, shown, pieces, written, other, switches>>

Next ==
    \/ pprint_call
    \/ fmt_write_debug
    \/ fmt_error
    \/ \E kind \in {"struct", "tuple", "list", "set", "map"} : debug_new(kind)
    \/ struct_field
    \/ tuple_field
    \/ list_entry
    \/ set_entry
    \/ map_key
    \/ map_value
    \/ map_entry
    \/ struct_finish
    \/ struct_finish_non_exhaustive
    \/ tuple_finish
    \/ list_finish
    \/ set_finish
    \/ map_finish
    \/ flat_return
    \/ pretty_return
    \/ pprint_unwrap
    \/ RefCell_borrow_mut
    \/ RefMut_drop
    \/ pprint_return

Spec == Init /\ [][Next]_vars

\* ---- the PadAdapter on its own: one adapter over a String, written to by a
\* sequence of write_str calls
InitPad ==
    /\ pieces \in SeqsUpTo(Texts, MaxPieces)
    /\ written = <<>>
    /\ \E mode \in {"Flat", "Pretty"} :
           f = PadAdapter_wrap(NewFormatter(mode), PadAdapterState_default)
    /\ pc = "pad"
    /\ x = Nil
    /\ cell = NoCell
    /\ shown = <<>>
    /\ other = NoCall
    /\ switches = 0
    /\ bld = NoBuilder
    /\ i = 1
    /\ flat = NotYet /\ pretty = NotYet /\ ret = NotYet /\ pp = NotYet
    /\ calls = 0

InitPadFail ==
    /\ pieces \in SeqsUpTo(Texts, MaxPieces)
    /\ written = <<>>
    /\ \E mode \in {"Flat", "Pretty"}, room \in 0..MaxRoom :
           f = PadAdapter_wrap(BoundedFormatter(mode, room), PadAdapterState_default)
    /\ pc = "pad"
    /\ x = Nil
    /\ cell = NoCell
    /\ shown = <<>>
    /\ other = NoCall
    /\ switches = 0
    /\ bld = NoBuilder
    /\ i = 1
    /\ flat = NotYet /\ pretty = NotYet /\ ret = NotYet /\ pp = NotYet
    /\ calls = 0

\* writer.write_str(piece): a call of its own, whatever the one before it
\* returned
pad_write_str ==
    /\ pc = "pad" /\ pieces # <<>>
    /\ f' = Formatter_write_str([f EXCEPT !.ok = TRUE], Head(pieces))
    /\ written' = written \o Head(pieces)
    /\ pieces' = Tail(pieces)
    /\ UNCHANGED <<x, pc, bld, i, flat, pretty, ret, pp, calls, cell, shown, other, switches>>

\* the builder that owns the adapter closes: `writer.write_str("..\n")?;
\* self.fmt.write_str("}")`: the delimiter goes to the Formatter below the
\* adapter
parent_close ==
    /\ pc = "pad" /\ pieces = <<>> /\ f.ok
    /\ f' = Formatter_write_str(Unwrap(f), <<"}">>)
    /\ pc' = "closed"
    /\ UNCHANGED <<x, bld, i, flat, pretty, ret, pp, calls, cell, shown, pieces, written, other, switches>>

NextPad == pad_write_str \/ parent_close

SpecPad == InitPad /\ [][NextPad]_vars

SpecPadFail == InitPadFail /\ [][NextPad]_vars

\* ---- values whose fmt uses more of the API: entries()
\* the items an iterable yields
IterValues == {One, ErrorFmt}

\* every iterable of up to MaxIter items, and two that yield a multi-line
\* item and a one-line item in either order
ListIters ==
    {Iter(its) : its \in SeqsUpTo({OpEntry(v) : v \in IterValues}, MaxIter)}
        \cup {Iter(<<OpEntry(Some1), OpEntry(One)>>), Iter(<<OpEntry(One), OpEntry(Some1)>>)}

MapIters ==
    {Iter(its) : its \in SeqsUpTo({OpKV(One, v) : v \in IterValues}, MaxIter)}
        \cup {Iter(<<OpKV(Some1, One), OpKV(One, Some1)>>)}

ListCalls == {OpEntry(v) : v \in IterValues} \cup {OpEntries(it) : it \in ListIters}

MapCalls == {OpKV(One, v) : v \in IterValues} \cup {OpEntries(it) : it \in MapIters}

EntriesRoots ==
    {Built(kind, <<>>, ops, "finish") :
         kind \in {"list", "set"}, ops \in SeqsUpTo(ListCalls, MaxCalls)}
    \cup {Built("map", <<>>, ops, "finish") : ops \in SeqsUpTo(MapCalls, MaxCalls)}

\* ---- values whose fmt creates a builder, makes calls on it and returns
\* Ok(()) without calling finish
DropRoots ==
    {Built("struct", Foo, ops, "drop") : ops \in SeqsUpTo(StructOps, MaxCalls)}
    \cup {Built("tuple", Foo, ops, "drop") : ops \in SeqsUpTo(TupleOps, MaxCalls)}
    \cup {Built(kind, <<>>, ops, "drop") :
              kind \in {"list", "set"}, ops \in SeqsUpTo(InnerOps, MaxCalls)}
    \cup {Built("map", <<>>, ops, "drop") : ops \in SeqsUpTo(MapOps, MaxCalls)}

\* values that render once and fail when rendered again
FlakyRoots == {Flaky(<<"1">>), Flaky(Rep("x", 80)), Flaky(Rep("x", 81))}

MoreRoots == EntriesRoots \cup DropRoots \cup FlakyRoots

\* the script is over and has no terminal call
AtDrop == pc = "build" /\ i > Len(x.items) /\ x.fin = "drop"

\* faulty variant: dropping a map builder with a key pending panics
builder_dropped_checked ==
    /\ AtDrop
    /\ Continue(IF bld.has_key THEN Panic(Root) ELSE [Root EXCEPT !.w.ok = TRUE],
                "fmtret")
    /\ UNCHANGED i

\* the builder goes out of scope (no builder implements Drop) and x.fmt
\* returns Ok(())
builder_dropped ==
    /\ AtDrop
    /\ Continue([Root EXCEPT !.w.ok = TRUE], "fmtret")
    /\ UNCHANGED i

\* x.fmt of a value that fails from its second call on
fmt_flaky ==
    /\ pc = "fmt" /\ x.k = "flaky"
    /\ f' = (IF calls = 1 THEN Formatter_write_debug(f, x.text)
                          ELSE [f EXCEPT !.ok = FALSE])
    /\ pc' = "fmtret"
    /\ UNCHANGED <<x, bld, i, flat, pretty, ret, pp, calls, cell, shown, pieces, written, other, switches>>

list_entries ==
    /\ AtCall("list", "entries")
    /\ Continue(DebugList_entries(Root, x.items[i].v), "build")
    /\ i' = i + 1

set_entries ==
    /\ AtCall("set", "entries")
    /\ Continue(DebugSet_entries(Root, x.items[i].v), "build")
    /\ i' = i + 1

map_entries ==
    /\ AtCall("map", "entries")
    /\ Continue(DebugMap_entries(Root, x.items[i].v), "build")
    /\ i' = i + 1

\* one value of each kind, for two calls at a time and beside the values above
TwoRoots ==
    {One, LongLeaf(81), ErrorFmt,
     Built("struct", Foo, <<OpField(<<"a">>, One)>>, "finish"),
     Built("struct", Foo, <<OpField(<<"a">>, LongLeaf(71))>>, "nonexh"),
     Built("tuple", Foo, <<OpField(<<>>, Some1)>>, "finish"),
     Built("list", <<>>, <<OpEntry(Deep)>>, "finish"),
     Built("set", <<>>, <<OpEntry(One)>>, "finish"),
     Built("map", <<>>, <<OpKey(One), OpValue(One), OpKV(One, Some1)>>, "finish"),
     Built("map", <<>>, <<OpValue(One)>>, "finish")}

InitMore ==
    /\ \/ cell = NoCell /\ x \in TwoRoots \cup MoreRoots
       \/ cell \in Cells /\ x = RefCell_fmt(cell)
    /\ shown = <<>>
    /\ pieces = <<>>
    /\ written = <<>>
    /\ other = NoCall
    /\ switches = 0
    /\ pc = "idle"
    /\ f = NewFormatter("Flat")
    /\ bld = NoBuilder
    /\ i = 1
    /\ flat = NotYet /\ pretty = NotYet /\ ret = NotYet /\ pp = NotYet
    /\ calls = 0

NextMore ==
    \/ Next
    \/ list_entries
    \/ set_entries
    \/ map_entries
    \/ builder_dropped
    \/ fmt_flaky

SpecMore == InitMore /\ [][NextMore]_vars

\* a pprint call is running on its thread
InCall == pc \in {"fmt", "build", "fmtret", "done"}

\* the thread of a running call executes its next statement: the call moves
\* to another place, or to the next call of the script
ThreadStep ==
    /\ InCall
    /\ pc' \in {"fmt", "build", "fmtret", "done", "end", "panicked"}
    /\ i' \in {1, i, i + 1}

\* the same with the thread of a running call always scheduled again: the
\* call is straight-line code that waits for nothing
LiveMore == SpecMore /\ WF_<<pc, i>>(ThreadStep)

\* ---- two pprint calls on two threads, each on a value of its own
InitTwo ==
    /\ x \in TwoRoots
    /\ other \in {NewCall(v) : v \in TwoRoots}
    /\ switches = 0
    /\ cell = NoCell
    /\ shown = <<>>
    /\ pieces = <<>>
    /\ written = <<>>
    /\ pc = "idle"
    /\ f = NewFormatter("Flat")
    /\ bld = NoBuilder
    /\ i = 1
    /\ flat = NotYet /\ pretty = NotYet /\ ret = NotYet /\ pp = NotYet
    /\ calls = 0

\* faulty variant: the two calls write through one Formatter and one String
switch_shared_sink ==
    /\ other.pc # "none" /\ switches < MaxSwitches
    /\ other' = Locals(x, pc, other.f, bld, i, flat, pretty, ret, pp, calls)
    /\ x' = other.x /\ pc' = other.pc /\ f' = f /\ bld' = other.bld
    /\ i' = other.i /\ flat' = other.flat /\ pretty' = other.pretty
    /\ ret' = other.ret /\ pp' = other.pp /\ calls' = other.calls
    /\ switches' = switches + 1
    /\ UNCHANGED <<cell, shown, pieces, written>>

\* The scheduler runs the other thread.  Everything a pprint call writes to
\* is a local of pprint_mode (the String `out`, the Formatter `f`) or of the
\* fmt it calls, so the locals of the two calls change places as a whole.
switch ==
    /\ other.pc # "none" /\ switches < MaxSwitches
    /\ other' = Locals(x, pc, f, bld, i, flat, pretty, ret, pp, calls)
    /\ x' = other.x /\ pc' = other.pc /\ f' = other.f /\ bld' = other.bld
    /\ i' = other.i /\ flat' = other.flat /\ pretty' = other.pretty
    /\ ret' = other.ret /\ pp' = other.pp /\ calls' = other.calls
    /\ switches' = switches + 1
    /\ UNCHANGED <<cell, shown, pieces, written>>

NextTwo ==
    \/ pprint_call
    \/ fmt_write_debug
    \/ fmt_error
    \/ \E kind \in {"struct", "tuple", "list", "set", "map"} : debug_new(kind)
    \/ struct_field
    \/ tuple_field
    \/ list_entry
    \/ set_entry
    \/ map_key
    \/ map_value
    \/ map_entry
    \/ struct_finish
    \/ struct_finish_non_exhaustive
    \/ tuple_finish
    \/ list_finish
    \/ set_finish
    \/ map_finish
    \/ flat_return
    \/ pretty_return
    \/ pprint_unwrap
    \/ switch

SpecTwo == InitTwo /\ [][NextTwo]_vars

\* ------------------------------------------------------------------ claims
\* what pprint_mode(v, mode) returns when v's fmt is run in one piece
WholeRender(v, mode) == Fmt(v, NewFormatter(mode))

AsResult(w) == IF w.ok THEN Ok(w.o) ELSE Err

Returned == pc \in {"done", "end"}

\* C1: pprint_checked returns the Flat-mode rendering whenever its length is
\* at most 80 (80 included), with no second render; otherwise it returns what
\* a second render of x, in Pretty mode and into a fresh sink, produced.
C1_ThresholdChoice ==
    (Returned /\ flat.tag = "ok") =>
        IF StrLen(flat.s) <= MAX_LEN
        THEN ret = flat /\ pretty = NotYet /\ flat = AsResult(WholeRender(x, "Flat"))
        ELSE ret = pretty /\ pretty = AsResult(WholeRender(x, "Pretty"))

\* a list whose flat rendering is exactly 80 long was returned from the flat pass
C1_Witness ==
    /\ pc = "done" /\ x.k = "list"
    /\ flat.tag = "ok" /\ StrLen(flat.s) = MAX_LEN
    /\ ret = flat

\* ---- the compact form the documentation shows: one line, entries separated
\* by ", ", no trailing comma
RECURSIVE Compact(_)
RECURSIVE CompactItems(_, _)

CompactItem(it) ==
    CASE it.op = "field" -> (IF it.n = <<>> THEN <<>> ELSE it.n \o <<":", " ">>) \o Compact(it.v)
      [] it.op = "entry" -> Compact(it.v)
      [] it.op = "key"   -> Compact(it.key) \o <<":", " ">>
      [] it.op = "value" -> Compact(it.v)
      [] it.op = "kv"    -> Compact(it.key) \o <<":", " ">> \o Compact(it.v)

CompactItems(items, j) ==
    IF j > Len(items) THEN <<>>
    ELSE (IF j > 1 /\ items[j].op # "value" THEN <<",", " ">> ELSE <<>>)
             \o CompactItem(items[j]) \o CompactItems(items, j + 1)

Compact(v) ==
    CASE v.k = "leaf" -> v.text
      [] v.k = "struct" /\ v.items = <<>> ->
            v.name \o (IF v.fin = "nonexh" THEN <<" ", "{", " ", ".", ".", " ", "}">> ELSE <<>>)
      [] v.k = "struct" /\ v.items # <<>> ->
            v.name \o <<" ", "{", " ">> \o CompactItems(v.items, 1)
                \o (IF v.fin = "nonexh" THEN <<",", " ", ".", ".">> ELSE <<>>) \o <<" ", "}">>
      [] v.k = "tuple" /\ v.items = <<>> -> v.name
      [] v.k = "tuple" /\ v.items # <<>> ->
            v.name \o <<"(">> \o CompactItems(v.items, 1) \o <<")">>
      [] v.k = "list" -> <<"[">> \o CompactItems(v.items, 1) \o <<"]">>
      [] v.k \in {"set", "map"} -> <<"{">> \o CompactItems(v.items, 1) \o <<"}">>
      [] OTHER -> <<>>

\* C2: for every value whose flat rendering is at most 80 characters, pprint
\* returns that flat rendering, and it is the single-line compact form with
\* no indentation (`Foo { bar: true }`, `Foo(true, "10/20")`, `[10, 11]`).
C2_FlatIsCompact ==
    (pc = "end" /\ flat.tag = "ok" /\ Len(flat.s) <= MAX_LEN) =>
        (pp.tag = "ok" /\ pp.s = flat.s /\ pp.s = Compact(x))

\* ---- the indented form, line by line: a rendering is a sequence of
\* segments [d, t]; the first continues the line the value starts on, every
\* other one is a line of its own, and d is the nesting depth of the entry
\* that contributes the line
RECURSIVE Lines(_, _)
RECURSIVE Body(_, _, _, _)

AppendText(segs, t) == [segs EXCEPT ![Len(segs)].t = @ \o t]

PrependText(t, segs) == [segs EXCEPT ![1].t = t \o @]

\* b goes on where a's last line stopped
Glue(a, b) == AppendText(a, b[1].t) \o Tail(b)

\* the lines of one entry-adding call, at depth d
ItemLines(acc, it, d) ==
    CASE it.op = "field" ->
            acc \o AppendText(PrependText(IF it.n = <<>> THEN <<>> ELSE it.n \o <<":", " ">>,
                                          Lines(it.v, d)), <<",">>)
      [] it.op = "entry" -> acc \o AppendText(Lines(it.v, d), <<",">>)
      [] it.op = "key"   -> acc \o AppendText(Lines(it.key, d), <<":", " ">>)
      [] it.op = "value" -> Glue(acc, AppendText(Lines(it.v, d), <<",">>))
      [] it.op = "kv"    ->
            Glue(acc \o AppendText(Lines(it.key, d), <<":", " ">>),
                 AppendText(Lines(it.v, d), <<",">>))

Body(acc, items, j, d) ==
    IF j > Len(items) THEN acc
    ELSE Body(ItemLines(acc, items[j], d), items, j + 1, d)

Opening(v) ==
    CASE v.k = "struct" -> v.name \o <<" ", "{">>
      [] v.k = "tuple"  -> v.name \o <<"(">>
      [] v.k = "list"   -> <<"[">>
      [] OTHER          -> <<"{">>

Closing(v) ==
    CASE v.k = "struct" -> <<"}">>
      [] v.k = "tuple"  -> <<")">>
      [] v.k = "list"   -> <<"]">>
      [] OTHER          -> <<"}">>

Lines(v, d) ==
    CASE v.k = "leaf" -> <<[d |-> d, t |-> v.text]>>
      [] v.k \in {"struct", "tuple"} /\ v.items = <<>> ->
            <<[d |-> d, t |-> Compact(v)]>>
      [] v.k \in {"list", "set", "map"} /\ v.items = <<>> ->
            <<[d |-> d, t |-> Opening(v) \o Closing(v)]>>
      [] OTHER ->
            Body(<<[d |-> d, t |-> Opening(v)]>>, v.items, 1, d + 1)
                \o (IF v.fin = "nonexh" THEN <<[d |-> d + 1, t |-> <<".", ".">>]>> ELSE <<>>)
                \o <<[d |-> d, t |-> Closing(v)]>>

\* every line after the first starts with exactly d units of four spaces
RECURSIVE LayoutFrom(_, _)
LayoutFrom(segs, j) ==
    IF j > Len(segs) THEN <<>>
    ELSE <<NL>> \o Rep(" ", 4 * segs[j].d) \o segs[j].t \o LayoutFrom(segs, j + 1)

Layout(segs) == segs[1].t \o LayoutFrom(segs, 2)

MultiLine(s) == \E j \in 1..Len(s) : s[j] = NL

HasEntries(v) == v.items # <<>>

OverLong == Returned /\ flat.tag = "ok" /\ StrLen(flat.s) > MAX_LEN /\ ret.tag = "ok"

\* C3 (as stated): for every value whose flat rendering exceeds 80 characters
\* the output is multi-line, every line of an entry at nesting depth N starts
\* with exactly N units of four spaces, and a closing delimiter is indented
\* like the line that holds its opening delimiter.
C3_Original ==
    OverLong => (MultiLine(ret.s) /\ ret.s = Layout(Lines(x, 0)))

\* C3 (amended): the same, but the output is multi-line only when the value
\* is a builder that was given at least one entry; a scalar, or a struct or
\* tuple without fields, stays on one line however long it is.
C3_Indentation ==
    OverLong => ((HasEntries(x) => MultiLine(ret.s)) /\ ret.s = Layout(Lines(x, 0)))

\* a list holding two lists of Option values came out of the Pretty pass:
\* lines at depth 1, 2 and 3
C3_Witness ==
    /\ pc = "done" /\ pretty.tag = "ok" /\ ret = pretty
    /\ x.k = "list" /\ Len(x.items) >= 2
    /\ x.items[1].v = Deep /\ x.items[2].v = Deep

\* C4: an over-long collection is written with each short entry in compact
\* form on one indented line (`    [Some(1), Some(2), Some(3), None],`), not
\* expanded one scalar per line.
RECURSIVE EntryPerLine(_, _)
EntryPerLine(items, j) ==
    IF j > Len(items) THEN <<>>
    ELSE Indent \o Compact(items[j].v) \o <<",", NL>> \o EntryPerLine(items, j + 1)

ShortEntry(v) == Len(Indent) + Len(Compact(v)) + 1 <= MAX_LEN

C4_ShortEntriesCompact ==
    (/\ pc = "end" /\ x.k \in {"list", "set"}
     /\ pretty.tag = "ok"
     /\ \A j \in 1..Len(x.items) : ShortEntry(x.items[j].v)) =>
        pp.s = Opening(x) \o <<NL>> \o EntryPerLine(x.items, 1) \o Closing(x)

\* ---- the map protocol
\* the next call of the script breaks the key/value protocol of the root map
Violation ==
    /\ pc = "build" /\ bld.kind = "map"
    /\ IF i <= Len(x.items)
       THEN \/ x.items[i].op = "value" /\ ~bld.has_key
            \/ x.items[i].op \in {"key", "kv"} /\ bld.has_key
       ELSE bld.has_key

\* C5 (as stated): on a map builder, value with no key pending, key with a
\* key pending and finish with a key pending abort instead of returning.
C5_Original == [][Violation => pc' = "panicked"]_vars

\* C5 (amended): they abort when the builder holds no earlier failure (its
\* result is still Ok); after a failure the assertions are not evaluated.
C5_AbortsWhenOk == [][(Violation /\ bld.result) => pc' = "panicked"]_vars

\* a call on the root map was aborted with a key pending
C5_Witness == pc = "panicked" /\ bld.kind = "map" /\ bld.has_key

\* C6: after a key's or a value's rendering failed inside a map entry, every
\* later entry, key, value and finish call returns without aborting, and
\* pprint_checked returns an error.
C6_MapErrorNeverPanics ==
    /\ [][(pc = "build" /\ bld.kind = "map" /\ ~bld.result)
              => pc' \in {"build", "fmtret"}]_vars
    /\ []((Returned /\ x.k = "map" /\ ~bld.result) => ret = Err)

\* entry("1", ErrorFmt) twice: the second entry's key call met a pending key
\* and a recorded failure, and pprint_checked returned Err
C6_Witness ==
    /\ pc = "done" /\ ret = Err
    /\ x.k = "map" /\ x.items = <<OpKV(One, ErrorFmt), OpKV(One, ErrorFmt)>>
    /\ bld.has_key

\* C7: once a write or a nested rendering has failed on a builder, no later
\* call on it, finish included, writes to the sink, the failure stays
\* recorded, and finish returns it.
C7_StickyError ==
    [][(pc = "build" /\ ~bld.result) =>
           /\ f'.o = f.o
           /\ ~bld'.result
           /\ pc' \in {"build", "fmtret"}
           /\ (pc' = "fmtret" => ~f'.ok)]_vars

\* a list whose first entry failed was given a second entry and finished
C7_Witness ==
    /\ pc = "fmtret" /\ ~f.ok
    /\ bld.kind = "list" /\ Len(x.items) >= 2 /\ x.items[1].v = ErrorFmt

\* C8: when the rendering of a nested value fails, pprint_checked returns a
\* failure and never a string, for every builder kind and wherever the
\* failing entry stands among the others.
Fails(v) == v = ErrorFmt \/ v = Broken

HasFailing(v) ==
    \E j \in 1..Len(v.items) : Fails(v.items[j].key) \/ Fails(v.items[j].v)

C8_NestedFailure ==
    HasFailing(x) => (ret.tag # "ok" /\ (Returned => ret = Err))

\* a set of three entries whose middle entry fails
C8_Witness ==
    /\ pc = "done" /\ ret = Err
    /\ x.k = "set" /\ Len(x.items) = 3
    /\ ~Fails(x.items[1].v) /\ Fails(x.items[2].v) /\ ~Fails(x.items[3].v)

\* ---- pprint
PprintAborted == pc = "panicked" \/ pp = Aborted

PprintOver == pc \in {"end", "panicked"}

\* C9 (as stated): pprint aborts exactly when pprint_checked returns a
\* failure, and otherwise returns the string pprint_checked returns.
C9_Original ==
    PprintOver => /\ PprintAborted <=> ret = Err
                  /\ ~PprintAborted => (pp.tag = "ok" /\ pp = ret)

\* C9 (amended): pprint aborts exactly when pprint_checked returns a failure
\* or is itself aborted by a map-protocol assertion.
C9_AbortsOnFailure ==
    PprintOver => /\ PprintAborted <=> (ret = Err \/ pc = "panicked")
                  /\ pp = Aborted <=> (pc = "end" /\ ret = Err)
                  /\ ~PprintAborted => (pp.tag = "ok" /\ pp = ret)

\* pprint unwrapped the Err that a failing field produced
C9_Witness == pc = "end" /\ ret = Err /\ pp = Aborted /\ x.k = "struct"

\* C10: a struct or tuple builder finished with zero fields writes nothing
\* but its name.
C10_EmptyIsBareName ==
    (/\ pc = "fmtret" /\ x.k \in {"struct", "tuple"}
     /\ x.items = <<>> /\ x.fin = "finish") => (f.ok /\ f.o = x.name)

\* the struct Foo without fields was finished
C10_Witness ==
    /\ pc = "fmtret" /\ x.k = "struct" /\ x.items = <<>> /\ x.fin = "finish"
    /\ f.o = Foo

\* ---- empty collections
Collection(v) == v.k \in {"list", "set", "map"}

\* C11: list, set and map builders write the opening delimiter at
\* construction and the closing one at finish whether or not an entry was
\* added; with zero entries the output is exactly `[]`, `{}`, `{}`.
C11_EmptyCollections ==
    /\ (pc = "build" /\ Collection(x) /\ i = 1) => f.o = Opening(x)
    /\ (pc = "fmtret" /\ Collection(x) /\ f.ok) =>
           SubSeq(f.o, Len(f.o), Len(f.o)) = Closing(x)
    /\ (pc = "fmtret" /\ Collection(x) /\ x.items = <<>>) =>
           (f.ok /\ f.o = Opening(x) \o Closing(x))
    /\ (pc = "end" /\ Collection(x) /\ x.items = <<>>) =>
           pp = Ok(Opening(x) \o Closing(x))

\* pprint of a set without entries returned `{}`
C11_Witness == pc = "end" /\ x.k = "set" /\ x.items = <<>> /\ pp = Ok(<<"{", "}">>)

\* ---- entry against key + value
\* the script that calls key(k) then value(v) for each entry(k, v)
Paired(items) ==
    [m \in 1..(2 * Len(items)) |->
        IF m % 2 = 1 THEN OpKey(items[(m + 1) \div 2].key)
                     ELSE OpValue(items[m \div 2].v)]

OnlyEntries(v) == v.k = "map" /\ \A j \in 1..Len(v.items) : v.items[j].op = "kv"

SameWrite(w1, w2) == w1.o = w2.o /\ w1.ok = w2.ok /\ w1.p = w2.p

\* C12: a map builder driven by entry(k, v) calls and one driven by the
\* paired key(k), value(v) calls write the same bytes and return the same
\* result.
C12_EntryIsKeyValue ==
    (pc = "fmtret" /\ OnlyEntries(x)) =>
        SameWrite(f, Fmt(Built("map", <<>>, Paired(x.items), "finish"),
                         NewFormatter(f.mode)))

\* three entry calls, one with a value of several lines, were finished
C12_Witness ==
    /\ pc = "fmtret" /\ f.ok /\ OnlyEntries(x) /\ Len(x.items) = 3
    /\ x.items[2].v = Some1

\* ---- RefCell
\* what the cell shows: the placeholder while a RefMut is alive, else the value
CellShows(c) == IF c.borrowed THEN BorrowedPlaceholder ELSE c.value

\* `RefCell { value: <v> }`
RefCellLine(v) ==
    RefCellName \o <<" ", "{", " ">> \o ValueName \o <<":", " ">> \o v.text \o <<" ", "}">>

\* C13: a RefCell holding 5 prints `RefCell { value: 5 }` while it is not
\* mutably borrowed and `RefCell { value: <borrowed> }` while it is, also
\* after a borrow was taken and released again.
C13_RefCellShown ==
    (pc = "end" /\ cell.some /\ cell.value = Five) =>
        pp = Ok(RefCellLine(CellShows(cell)))

\* the selection of the placeholder alone, whatever the layout: the field of
\* the struct written is the placeholder exactly while the cell is borrowed
C13_PlaceholderChoice ==
    (pc = "end" /\ cell.some) =>
        (pp.tag = "ok" /\ pp.s = Layout(Lines(Built("struct", RefCellName,
                                   <<OpField(ValueName, CellShows(cell))>>, "finish"), 0)))

\* three prints: not borrowed, borrowed, released again
C13_ThreePrints ==
    /\ pc = "end" /\ cell.some /\ cell.value = Five /\ ~cell.borrowed
    /\ Len(shown) = 3 /\ shown[1] = shown[3] /\ shown[2] # shown[1]

\* ---- Flat mode
\* the same lines with no indentation
ZeroDepth(segs) == [j \in DOMAIN segs |-> [segs[j] EXCEPT !.d = 0]]

\* C14: in Flat mode the PadAdapter inserts no indent: the flat rendering has
\* the delimiters, commas and newlines of the pretty rendering and no
\* inserted four-space indentation.
C14_FlatNoIndent ==
    (pc = "fmtret" /\ f.mode = "Flat" /\ f.ok) =>
        f.o = Layout(ZeroDepth(Lines(x, 0)))

\* ---- the indentation writer against its description
\* t with four spaces inserted before the first character of every line,
\* character by character
RECURSIVE PadFrom(_, _)
PadFrom(t, j) ==
    IF j > Len(t) THEN <<>>
    ELSE (IF j = 1 \/ t[j - 1] = NL THEN Indent ELSE <<>>)
             \o <<t[j]>> \o PadFrom(t, j + 1)

\* the same line by line, for a writer that starts at a line start or not
LineEnd(t) == IF FindNL(t) = 0 THEN Len(t) ELSE FindNL(t)

RECURSIVE PadText(_, _)
PadText(t, atStart) ==
    IF t = <<>> THEN <<>>
    ELSE (IF atStart THEN Indent ELSE <<>>)
             \o SubSeq(t, 1, LineEnd(t))
             \o PadText(SubSeq(t, LineEnd(t) + 1, Len(t)), TRUE)

\* C15: the PadAdapter reproduces the text written to it except that four
\* spaces stand before the first character of every line, the first write
\* included; the result depends on the concatenation of the texts written
\* only, not on how it is split across write_str calls.
C15_PadAdapter ==
    pc = "pad" =>
        /\ f.ok
        /\ f.o = PadFrom(written, 1)
        /\ f.o = PadText(written, TRUE)

\* three writes that cut the text `a\n\na\na` after a newline, before one
\* and inside a line
C15_Witness ==
    /\ pc = "pad" /\ pieces = <<>>
    /\ written = <<"a", NL, NL, "a", NL, "a">>
    /\ Len(f.o) = Len(written) + 4 * Len(Indent)

\* ---- the delimiters a builder writes itself
\* Everything an entry writes goes through a PadAdapter, so the lines of the
\* sink that do not start with a space hold what the root builder wrote
\* itself: the name, the opening delimiter and the closing delimiter.
RootStarts(s) == {k \in 1..Len(s) : (k = 1 \/ s[k - 1] = NL) /\ s[k] # " "}

InRootLine(s, j) ==
    \E k \in RootStarts(s) : k <= j /\ \A m \in k..(j - 1) : s[m] # NL

CountRoot(s, c) == Cardinality({j \in 1..Len(s) : s[j] = c /\ InRootLine(s, j)})

IsBuilder(v) == v.k \in {"struct", "tuple", "list", "set", "map"}

OpenChar(v) == Opening(v)[Len(Opening(v))]

CloseChar(v) == Closing(v)[1]

ZeroFieldFinish == x.k \in {"struct", "tuple"} /\ x.items = <<>> /\ x.fin = "finish"

Started == Collection(x) \/ bld.has_fields \/ bld.fields > 0

\* C16 (as stated): for every sequence of entry-adding calls followed by
\* finish, exactly one opening and exactly one closing delimiter are written.
C16_Original ==
    (pc = "fmtret" /\ IsBuilder(x) /\ f.ok) =>
        (CountRoot(f.o, OpenChar(x)) = 1 /\ CountRoot(f.o, CloseChar(x)) = 1)

\* C16 (amended): when finish returns Ok, exactly one opening and one closing
\* delimiter were written, the opening one at construction (list, set, map)
\* or at the first field (struct, tuple) and the closing one at finish,
\* except that a struct or tuple finished with zero fields writes neither.
C16_Delimiters ==
    /\ (pc = "build" /\ IsBuilder(x) /\ bld.result) =>
           /\ CountRoot(f.o, OpenChar(x)) = (IF Started THEN 1 ELSE 0)
           /\ CountRoot(f.o, CloseChar(x)) = 0
    /\ (pc = "fmtret" /\ IsBuilder(x) /\ f.ok) =>
           /\ CountRoot(f.o, OpenChar(x)) = (IF ZeroFieldFinish THEN 0 ELSE 1)
           /\ CountRoot(f.o, CloseChar(x)) = (IF ZeroFieldFinish THEN 0 ELSE 1)

\* a struct of three fields, the first a list of Option values with
\* delimiters of its own, was finished
C16_Witness ==
    /\ pc = "fmtret" /\ f.ok
    /\ x.k = "struct" /\ Len(x.items) = 3 /\ x.items[1].v = Deep

\* ---- what each builder call appends to the sink
\* the text v's fmt writes in the mode of the running pass
Render(v) == Fmt(v, NewFormatter(f.mode)).o

Renders(v) == Fmt(v, NewFormatter(f.mode)).ok

\* the call about to be made on a root builder of kind `kind` that holds no
\* failure
NextCall(kind) == pc = "build" /\ bld.kind = kind /\ bld.result /\ i <= Len(x.items)

NextFinish(kind, fin) ==
    pc = "build" /\ bld.kind = kind /\ bld.result /\ i > Len(x.items) /\ x.fin = fin

\* this step appends exactly t to the sink
Appends(t) == f'.o = f.o \o t

RECURSIVE Flatten(_, _)
\* the script with every entries(iterable) replaced by one entry call per item
Flatten(items, j) ==
    IF j > Len(items) THEN <<>>
    ELSE (IF items[j].op = "entries" THEN items[j].v.items ELSE <<items[j]>>)
             \o Flatten(items, j + 1)

UsesEntries(v) == \E j \in 1..Len(v.items) : v.items[j].op = "entries"

\* C21: entries(iterable) on a list, set or map builder is the same as one
\* entry call per item in iteration order: nothing is dropped, deduplicated
\* or sorted.
C21_EntriesIsEntryPerItem ==
    (pc = "fmtret" /\ Collection(x) /\ UsesEntries(x)) =>
        SameWrite(f, Fmt(Built(x.k, <<>>, Flatten(x.items, 1), "finish"),
                         NewFormatter(f.mode)))

\* a set was given an iterable that is not sorted and one that repeats an item
C21_Witness ==
    /\ pc = "fmtret" /\ f.ok /\ x.k = "set"
    /\ x.items = <<OpEntries(Iter(<<OpEntry(Some1), OpEntry(One)>>)),
                   OpEntries(Iter(<<OpEntry(One), OpEntry(One)>>))>>

\* ---- a builder that is never finished
\* the key, value and entry calls of the script come in the order the map
\* protocol asks for
RECURSIVE WellOrderedFrom(_, _, _)
WellOrderedFrom(items, j, pending) ==
    IF j > Len(items) THEN TRUE
    ELSE CASE items[j].op = "key"   -> ~pending /\ WellOrderedFrom(items, j + 1, TRUE)
           [] items[j].op = "value" -> pending /\ WellOrderedFrom(items, j + 1, FALSE)
           [] items[j].op = "kv"    -> ~pending /\ WellOrderedFrom(items, j + 1, FALSE)
           [] OTHER -> WellOrderedFrom(items, j + 1, pending)

WellOrdered(v) == WellOrderedFrom(v.items, 1, FALSE)

Unfinished == x.fin = "drop"

AloneChecked(v) ==
    IF ~WholeRender(v, "Flat").ok THEN Err
    ELSE IF StrLen(WholeRender(v, "Flat").o) <= MAX_LEN
    THEN Ok(WholeRender(v, "Flat").o)
    ELSE AsResult(WholeRender(v, "Pretty"))

Alone(v) ==
    IF WholeRender(v, "Flat").p \/ AloneChecked(v).tag # "ok" THEN Aborted
    ELSE AloneChecked(v)

\* what a call that is over did: the String it returned, or a panic
Over(l) == l.pc \in {"end", "panicked"}

Outcome(l) == IF l.pc = "panicked" THEN Aborted ELSE l.pp

Running == Locals(x, pc, f, bld, i, flat, pretty, ret, pp, calls)

\* C23: two pprint calls on two values, interleaved in any way, each return
\* what they return when run alone.
C23_Independent ==
    /\ Over(Running) => Outcome(Running) = Alone(x)
    /\ Over(other) => Outcome(other) = Alone(other.x)

\* both calls are over after the running thread changed four times, one
\* of them having made two passes
C23_Witness ==
    /\ pc = "end" /\ other.pc = "end" /\ switches = 4
    /\ x = LongLeaf(81) /\ other.x.k = "map"
    /\ pp.tag = "ok" /\ other.pp.tag = "ok" /\ pp # other.pp

\* ---- the indentation writer over a destination that fails
\* the write_str calls one write_str(t) on the adapter makes on its
\* destination when none fails: the indent at each line start, and the text
\* cut after each newline
RECURSIVE DestWrites(_, _)
DestWrites(t, atStart) ==
    IF t = <<>> THEN <<>>
    ELSE (IF atStart THEN <<Indent>> ELSE <<>>)
             \o <<SubSeq(t, 1, LineEnd(t))>>
             \o DestWrites(SubSeq(t, LineEnd(t) + 1, Len(t)), TRUE)

\* the first of the writes ws that a destination with `room` bytes left
\* refuses, 0 when it accepts them all
RECURSIVE FirstFail(_, _, _)
FirstFail(ws, j, room) ==
    IF j > Len(ws) THEN 0
    ELSE IF Len(ws[j]) > room THEN j
    ELSE FirstFail(ws, j + 1, room - Len(ws[j]))

RECURSIVE Concat(_, _)
Concat(ws, n) == IF n = 0 THEN <<>> ELSE Concat(ws, n - 1) \o ws[n]

\* after write_str(t): the destination has received the writes up to the
\* first refused one and no other
StopsAt(ws, k) ==
    IF k = 0
    THEN f'.ok /\ f'.wr = f.wr + Len(ws) /\ f'.o = f.o \o Concat(ws, Len(ws))
    ELSE ~f'.ok /\ f'.wr = f.wr + k /\ f'.o = f.o \o Concat(ws, k - 1)

\* C24: when a write to the destination fails (indent or text chunk), the
\* PadAdapter's write_str returns the failure and makes no further write to
\* the destination in that call.
C24_FailureStops ==
    [][(pc = "pad" /\ pieces # <<>>) =>
           StopsAt(DestWrites(Head(pieces), f.buf[1]),
                   FirstFail(DestWrites(Head(pieces), f.buf[1]), 1, f.room))]_vars

\* the destination took the indent and refused the newline of `\na`: two
\* writes reached it, the second line was never tried
C24_Witness ==
    /\ pc = "pad" /\ ~f.ok /\ f.bounded
    /\ written = <<NL, "a">> /\ f.o = Indent /\ f.wr = 2

\* ---- the two passes of pprint_checked
\* C25: the threshold counts characters: a flat rendering of at most 80
\* characters is returned from the flat pass without a second render, also
\* when multi-byte characters make its byte length exceed 80.
C25_CountsCharacters ==
    (Returned /\ flat.tag = "ok" /\ Len(flat.s) <= MAX_LEN) =>
        (ret = flat /\ calls = 1 /\ pretty = NotYet)

\* C26: pprint_checked calls the root value's fmt once when the flat
\* rendering has length at most 80 and twice otherwise, and the returned
\* string is the output of the last pass alone: nothing of the flat buffer
\* precedes it.
C26_OneOrTwoCalls ==
    (Returned /\ flat.tag = "ok") =>
        IF StrLen(flat.s) <= MAX_LEN
        THEN calls = 1 /\ ret.tag = "ok" /\ ret.s = WholeRender(x, "Flat").o
        ELSE /\ calls = 2
             /\ ret = AsResult(WholeRender(x, "Pretty"))
             /\ ret.tag = "ok" => Len(ret.s) = Len(WholeRender(x, "Pretty").o)

\* a tuple was rendered twice and the second rendering alone was returned
C26_Witness ==
    /\ pc = "done" /\ x.k = "tuple" /\ x.items # <<>>
    /\ calls = 2 /\ flat.tag = "ok" /\ ret.tag = "ok"
    /\ Len(ret.s) = Len(flat.s)

\* C27: a failure of the Flat pass is returned at once and the Pretty pass is
\* never started; when the Flat pass succeeds with length over 80 and the
\* Pretty pass fails, the Pretty pass's failure is returned, not the flat
\* string.
C27_FailurePerPass ==
    /\ flat = Err => (f.mode = "Flat" /\ calls = 1 /\ pretty = NotYet)
    /\ (Returned /\ flat = Err) => ret = Err
    /\ (Returned /\ flat.tag = "ok" /\ StrLen(flat.s) > MAX_LEN /\ pretty = Err)
           => ret = Err

\* a value rendered 81 bytes in the Flat pass and failed in the Pretty pass
C27_Witness ==
    /\ pc = "done" /\ x.k = "flaky"
    /\ flat.tag = "ok" /\ StrLen(flat.s) > MAX_LEN
    /\ calls = 2 /\ pretty = Err /\ ret = Err

\* ---- the layout mode
\* the builder and the sink after the first n calls of v's fmt in `mode`
Partial(v, n, mode) == Calls(Create(v, NewFormatter(mode)), SubSeq(v.items, 1, n), 1)

SameSink(a, b) == a.o = b.o /\ a.ok = b.ok /\ a.p = b.p

\* two partial renderings agree, and with the sink of the running pass
SamePartial(a, b) == SameSink(a.w, b.w) /\ a.b = b.b /\ f.o = a.w.o

C29_ModeConstant ==
    /\ \E r \in f.fmts : r.d = 0
    /\ \A r \in f.fmts : r.d = 0 => r.mode = (IF calls = 2 THEN "Pretty" ELSE "Flat")
    /\ \A r, m \in f.fmts : r.d = 0 => m.mode = r.mode
    /\ f.mode = (IF calls = 2 THEN "Pretty" ELSE "Flat")

\* a Pretty pass ended that wrapped the sink three levels deep
C29_Witness ==
    /\ pc = "fmtret" /\ f.mode = "Pretty"
    /\ \E m \in f.fmts : m.d = 3

\* ---- the key-pending flag of a map builder
MapStep(op) ==
    /\ pc = "build" /\ bld.kind = "map" /\ i <= Len(x.items)
    /\ x.items[i].op = op
    /\ pc' = "build"

\* the call was not skipped and did not fail
Completed == bld.result /\ bld'.result

\* C30: the key-pending flag of a map builder is clear after construction;
\* a key call that runs to its end without failure sets it, a value call that
\* does so clears it, and a failed or skipped key or value call leaves it
\* unchanged (so it is set exactly when the last call that completed without
\* failure was key).  entry is key followed by value.
C30_KeyPending ==
    [][/\ (pc = "fmt" /\ x.k = "map" /\ pc' = "build") => ~bld'.has_key
       /\ MapStep("key") =>
              bld'.has_key = (IF Completed THEN TRUE ELSE bld.has_key)
       /\ MapStep("value") =>
              bld'.has_key = (IF Completed THEN FALSE ELSE bld.has_key)
       /\ MapStep("kv") =>
              bld'.has_key = (IF Completed THEN FALSE
                              ELSE IF bld.result /\ Renders(x.items[i].key) THEN TRUE
                              ELSE bld.has_key)]_vars

\* key, then a value whose rendering failed: the flag is still set
C30_Witness ==
    /\ pc = "build" /\ bld.kind = "map" /\ i = 3
    /\ x.items[1].op = "key" /\ x.items[2].op = "value"
    /\ bld.has_key /\ ~bld.result

\* ---- the line-start flag of the indentation writer
EndsWithNL(t) == t # <<>> /\ t[Len(t)] = NL

\* C31: the PadAdapter writes the indent lazily: after a successful write of
\* a non-empty text on_newline tells whether the text ended with a newline;
\* a write of the empty text writes nothing and leaves on_newline unchanged;
\* the four spaces are written only right before a non-empty chunk, never
\* after the last newline, so the closing delimiter the parent writes after
\* an entry that ended with a newline stands at the start of its line.
C31_LazyIndent ==
    /\ [][(pc = "pad" /\ pieces # <<>> /\ pc' = "pad") =>
              IF Head(pieces) = <<>>
              THEN f'.o = f.o /\ f'.buf = f.buf /\ f'.ok
              ELSE f'.ok => f'.buf[1] = EndsWithNL(Head(pieces))]_vars
    /\ [](pc = "pad" => (f.o = <<>> \/ f.o[Len(f.o)] # " "))
    /\ []((pc = "closed" /\ f.ok) =>
              /\ f.o = PadText(written, TRUE) \o <<"}">>
              /\ EndsWithNL(written) => f.o[Len(f.o) - 1] = NL)

\* the entry `a\n\n` was written and the parent closed: `}` follows the last
\* newline directly
C31_Witness ==
    /\ pc = "closed" /\ f.ok
    /\ written = <<"a", NL, NL>>
    /\ f.o = Indent \o <<"a", NL>> \o Indent \o <<NL, "}">>

\* ---- termination
CallOver == pc \in {"end", "panicked"}

\* the code has a next statement to execute: x.fmt is about to start, the
\* script has a next call the builder accepts or is over, or a function is
\* about to return
CanStep ==
    \/ pc = "fmt" /\ x.k \in {"leaf", "err", "flaky", "struct", "tuple", "list", "set", "map"}
    \/ AtCall("struct", "field") \/ AtCall("tuple", "field")
    \/ \E kind \in {"list", "set"} : AtCall(kind, "entry") \/ AtCall(kind, "entries")
    \/ \E op \in {"key", "value", "kv", "entries"} : AtCall("map", op)
    \/ \E kind \in {"struct", "tuple", "list", "set", "map"} : AtFinish(kind, "finish")
    \/ AtFinish("struct", "nonexh")
    \/ AtDrop
    \/ pc = "fmtret" /\ f.mode \in {"Flat", "Pretty"}
    \/ pc = "done"

\* C32: rendering terminates for every finite value: each iteration of the
\* PadAdapter's write loop consumes at least one byte of the text that is
\* left, each builder call runs to its end (and the script moves on) or
\* aborts at once, pprint_checked makes at most two passes, and every call
\* that entered x.fmt is over in the end.
C32_Terminates ==
    /\ [](InCall => CanStep)
    /\ [](\A t \in Texts : t # <<>> => Split(t, FindNL(t)) \in 1..Len(t))
    /\ [][pc = "build" =>
              \/ pc' = "build" /\ i' = i + 1
              \/ pc' \in {"fmtret", "panicked"}]_vars
    /\ [](calls <= 2)
    /\ (pc = "fmt") ~> CallOver

\* a map given two iterables was rendered in two passes and pprint returned
C32_Witness ==
    /\ pc = "end" /\ calls = 2 /\ pp.tag = "ok"
    /\ x.k = "map" /\ Len(x.items) = 2
    /\ x.items[1].op = "entries" /\ x.items[2].op = "entries"

====
